---- MODULE Spec2Model ----
(***************************************************************************)
(* Model of the infiniverse contract (src/infiniverse/src/infiniverse.cpp): *)
(* land registration with the bounded-window overlap scan, the INF deposit  *)
(* ledger, and the persistent (placement) / poly (asset) tables.            *)
(*                                                                          *)
(* Units.  Coordinates are integers in micro-degrees.  Lengths are integers *)
(* in twentieths of a metre (LenPerMeter units per metre).  INF amounts are *)
(* integers in the token's smallest unit (4 decimals, as asset::amount).    *)
(* A 128-bit source_and_asset_id is the pair <<high 64 bits, low 64 bits>>. *)
(***************************************************************************)
EXTENDS Integers, Sequences, FiniteSets, TLC

(* ------------------------------ constants ------------------------------ *)
seconds_in_one_year == 31536000
max_land_length == 100
inf_per_sqm == 10
inf_symbol == "4,INF"
inf_account == "infinicoinio"
Self == "infiniverse1"

\* PlacementSource::POLY, the only placement source the contract uses.
POLY == 0

\* Micro-degrees per degree: the scale of the model's coordinates.
UnitsPerDegree == 1000000
\* Length units per metre: the scale of the model's lengths.
LenPerMeter == 20
\* Smallest INF units per INF (four decimal places).
inf_precision == 10000

(* ------------------------------- bounds -------------------------------- *)
MaxLands == 3
MaxBalance == 200000
MaxPersistents == 2
MaxPersistentId == 2
MaxPolyId == 2

Users == {"alice", "bob"}
\* The sets of accounts whose authority an action may carry.
Auths == {{"alice"}, {"bob"}, {"alice", "bob"}}
\* Block times at which a transaction may run.
Times == {1600000000}

Box(n, e, s, w) == [north |-> n, east |-> e, south |-> s, west |-> w]

BoxA == Box(10, 10, 0, 0)
BoxB == Box(0, 10, -10, 0)
BoxC == Box(15, 25, 5, 5)
BoxD == Box(1020, 10, 1010, 0)
\* The candidate boxes a caller may submit: four that pass validation (A; B
\* touching A's south edge; C crossing A; D north of A's scan window), one per
\* failing validation check, one valid box too expensive for any deposit, and
\* five boxes that fail several validation checks at once.
Boxes ==
    { BoxA, BoxB, BoxC, BoxD,
      Box(0, 10, 0, 0),
      Box(10, 0, 0, 0),
      Box(85 * UnitsPerDegree, 10, 85 * UnitsPerDegree - 10, 0),
      Box(-85 * UnitsPerDegree + 10, 10, -85 * UnitsPerDegree, 0),
      Box(10, 180 * UnitsPerDegree + 1, 0, 180 * UnitsPerDegree - 9),
      Box(10, -180 * UnitsPerDegree + 10, 0, -180 * UnitsPerDegree),
      Box(1001, 10, 0, 0),
      Box(10, 1001, 0, 0),
      Box(60 * UnitsPerDegree + 10, 1980, 60 * UnitsPerDegree, 0),
      Box(0, 0, 0, 0),
      Box(85 * UnitsPerDegree, 0, 0, 0),
      Box(85 * UnitsPerDegree, 180 * UnitsPerDegree + 1,
          -85 * UnitsPerDegree, -180 * UnitsPerDegree),
      Box(10, 180 * UnitsPerDegree + 1, -85 * UnitsPerDegree, 0),
      Box(1001, 180 * UnitsPerDegree + 1, 0, 180 * UnitsPerDegree - 9) }

\* Quantities an inbound transfer may carry.
Amounts == {-100000, 0, 100000}
Symbols == {inf_symbol, "4,EOS"}

(* ------------------------------- state --------------------------------- *)
VARIABLES
    lands,        \* land_table: set of land rows
    deposits,     \* deposit_table: owner -> balance, for the owners with a row
    persistents,  \* persistent_table: set of placement rows
    poly,         \* poly_table: set of poly rows
    last,         \* the last action run: its name, inputs, outcome, inline transfers
    pre,          \* the tables as they were before the last action
    resolved,     \* the last asset id add_poly returned, and for whom
    feeSt,        \* fee calculation under study (FeeSpec only)
    holdings      \* the contract account's INF balance at the token contract

vars == <<lands, deposits, persistents, poly, last, pre, resolved, feeSt,
         holdings>>

Tables == [lands |-> lands, deposits |-> deposits,
           persistents |-> persistents, poly |-> poly, holdings |-> holdings]

NoArgs == [none |-> TRUE]

\* The record of the last action while none is on record.
NoAction == [op |-> "none", auth |-> {}, args |-> NoArgs, err |-> "ok",
             ret |-> 0, transfers |-> <<>>]

\* No asset id has been resolved yet.
NoResolution == [user |-> "", poly_id |-> "", id |-> -1]

\* No action is on record: the next one can run and be recorded.
idle == last = NoAction

(* --------------------------- platform helpers -------------------------- *)
Max(a, b) == IF a >= b THEN a ELSE b

Abs(a) == IF a >= 0 THEN a ELSE -a

\* round(n / d) for n >= 0, d > 0: halves round away from zero.
Round(n, d) == (2 * n + d) \div (2 * d)

\* multi_index::available_primary_key of a freshly opened table: 0 for an
\* empty table, otherwise the largest primary key plus one.
available_primary_key(table) ==
    IF table = {} THEN 0
    ELSE (CHOOSE m \in {r.id : r \in table} : \A r \in table : r.id <= m) + 1

\* require_auth(account): the action carries the account's authority.
has_auth(auth, account) == account \in auth

\* Mutant of tx_result: the writes made before the failing inline action stay.
tx_result_kept(ok, committed, reverted) ==
    IF ok THEN committed ELSE [committed EXCEPT !.err = reverted.err]

\* An inline action that fails aborts the whole transaction: the tables keep
\* their values from before the action.
tx_result(ok, committed, reverted) == IF ok THEN committed ELSE reverted

(* ------------------- lat_long_functions.cpp (not in src/) --------------- *)
\* Length units per micro-degree of latitude: constant (100 km per degree).
LatLenPerUnit == 2

\* Length units per micro-degree of longitude at a latitude: shrinks towards
\* the poles (halved from 60 degrees on).
LonLenPerUnit(lat) == IF Abs(lat) >= 60 * UnitsPerDegree THEN 1 ELSE 2

\* lat_long_to_meters: the box's <<north-south side, east-west side>>.
lat_long_to_meters(north, south, east, west) ==
    << (north - south) * LatLenPerUnit, (east - west) * LonLenPerUnit(south) >>

\* meters_to_lat_dist: a distance in metres as a latitude difference.
meters_to_lat_dist(meters) == (meters * LenPerMeter) \div LatLenPerUnit

(* ----------------------------- registerland ---------------------------- *)
\* Mutant of geometry_error: the size of the land is not checked.
geometry_error_unbounded(b) ==
    IF ~(b.north > b.south)
    THEN "North edge must have greater latitude than south edge"
    ELSE IF ~(b.east > b.west)
    THEN "East edge must have greater longitude than west edge"
    ELSE IF ~(b.north < 85 * UnitsPerDegree)
    THEN "Latitude cannot be greater than 85 degrees"
    ELSE IF ~(b.south > -85 * UnitsPerDegree)
    THEN "Latitude cannot be less than -85 degrees"
    ELSE IF ~(/\ b.east <= 180 * UnitsPerDegree /\ b.east > -180 * UnitsPerDegree
              /\ b.west <= 180 * UnitsPerDegree /\ b.west > -180 * UnitsPerDegree)
    THEN "Longitude must be between -180 and 180 degrees"
    ELSE "ok"

\* Geometry checks of registerland, in the order of its asserts.
geometry_error(b) ==
    LET land_size == lat_long_to_meters(b.north, b.south, b.east, b.west) IN
    IF ~(b.north > b.south)
    THEN "North edge must have greater latitude than south edge"
    ELSE IF ~(b.east > b.west)
    THEN "East edge must have greater longitude than west edge"
    ELSE IF ~(b.north < 85 * UnitsPerDegree)
    THEN "Latitude cannot be greater than 85 degrees"
    ELSE IF ~(b.south > -85 * UnitsPerDegree)
    THEN "Latitude cannot be less than -85 degrees"
    ELSE IF ~(/\ b.east <= 180 * UnitsPerDegree /\ b.east > -180 * UnitsPerDegree
              /\ b.west <= 180 * UnitsPerDegree /\ b.west > -180 * UnitsPerDegree)
    THEN "Longitude must be between -180 and 180 degrees"
    ELSE IF ~(/\ land_size[1] <= max_land_length * LenPerMeter
              /\ land_size[2] <= max_land_length * LenPerMeter)
    THEN "Land cannot exceed a length of 100 meters on either side"
    ELSE "ok"

\* The "bylatnorth" secondary index: rows by lat_north_edge, then primary key.
RECURSIVE bylatnorth(_)
bylatnorth(table) ==
    IF table = {} THEN <<>>
    ELSE LET first == CHOOSE r \in table : \A q \in table :
                          \/ r.lat_north_edge < q.lat_north_edge
                          \/ /\ r.lat_north_edge = q.lat_north_edge
                             /\ r.id <= q.id
         IN <<first>> \o bylatnorth(table \ {first})

\* index.lower_bound(v): position of the first row with lat_north_edge >= v,
\* or one past the end.
lower_bound(index, v) ==
    LET hits == {i \in 1..Len(index) : index[i].lat_north_edge >= v} IN
    IF hits = {} THEN Len(index) + 1
    ELSE CHOOSE i \in hits : \A j \in hits : i <= j

\* Mutant of upper_bound: the scan stops at the candidate's own north edge.
upper_bound_short(lat_north_edge) == lat_north_edge

\* Upper bound of the scan: max_land_length metres north of the north edge.
upper_bound(lat_north_edge) == lat_north_edge + meters_to_lat_dist(max_land_length)

\* The assert inside the scan loop: the row does not intersect the box.
not_intersecting(row, b) ==
    \/ row.long_east_edge <= b.west
    \/ row.long_west_edge >= b.east
    \/ row.lat_south_edge >= b.north
    \/ row.lat_north_edge <= b.south

\* Mutant of scan: the loop ends after the first row it examines.
scan_first(index, i, b, ub) ==
    IF i > Len(index) \/ ~(index[i].lat_north_edge < ub) THEN TRUE
    ELSE not_intersecting(index[i], b)

\* The while loop from position i: TRUE when it ends with no assert failing.
RECURSIVE scan(_, _, _, _)
scan(index, i, b, ub) ==
    IF i > Len(index) \/ ~(index[i].lat_north_edge < ub) THEN TRUE
    ELSE IF not_intersecting(index[i], b) THEN scan(index, i + 1, b, ub)
    ELSE FALSE

overlap_scan_ok(table, b) ==
    LET lat_north_index == bylatnorth(table) IN
    scan(lat_north_index, lower_bound(lat_north_index, b.south), b,
         upper_bound(b.north))

\* Mutant of reg_fee: the sides are not floored at one metre.
reg_fee_unfloored(land_size) ==
    Round(land_size[1] * land_size[2] * inf_per_sqm, LenPerMeter * LenPerMeter)

\* reg_fee: the fee in whole INF for a land of the given <<side, side>>.
reg_fee(land_size) ==
    LET land_area == Max(land_size[1], 1 * LenPerMeter)
                       * Max(land_size[2], 1 * LenPerMeter)
    IN Round(land_area * inf_per_sqm, LenPerMeter * LenPerMeter)

\* inf_amount: the fee as an INF asset amount (four decimal places).
inf_amount(land_size) == reg_fee(land_size) * inf_precision

box_fee(b) == inf_amount(lat_long_to_meters(b.north, b.south, b.east, b.west))

\* Mutant of balance_sufficient: any deposit row is taken as enough.
balance_sufficient_any(balance, amount) == TRUE

\* The balance check before the debit.
balance_sufficient(balance, amount) == balance >= amount

\* Mutant of debit: the fee is not taken off the balance.
debit_none(table, owner, amount) == table

\* deposits.modify: row.balance -= inf_amount.
debit(table, owner, amount) == [table EXCEPT ![owner] = @ - amount]

\* An inline transfer action sent to the token contract.
transfer_inf(from, to, quantity) ==
    [from |-> from, to |-> to, amount |-> quantity, symbol |-> inf_symbol]

\* What the inline transfers of a committed action take out of the contract
\* account's balance at the token contract.
RECURSIVE paid_out(_)
paid_out(transfers) ==
    IF transfers = <<>> THEN 0
    ELSE (IF Head(transfers).from = Self THEN Head(transfers).amount ELSE 0)
         + paid_out(Tail(transfers))

\* Mutant of new_land: the row is stamped with the block time itself.
new_land_unstamped(table, owner, b, now) ==
    [id |-> available_primary_key(table), owner |-> owner,
     lat_north_edge |-> b.north, long_east_edge |-> b.east,
     lat_south_edge |-> b.south, long_west_edge |-> b.west,
     reg_end_date |-> now]

\* Mutant of new_land: every row is emplaced under the same primary key.
new_land_same_id(table, owner, b, now) ==
    [id |-> 0, owner |-> owner,
     lat_north_edge |-> b.north, long_east_edge |-> b.east,
     lat_south_edge |-> b.south, long_west_edge |-> b.west,
     reg_end_date |-> now + seconds_in_one_year]

\* lands.emplace: the new row.
new_land(table, owner, b, now) ==
    [id |-> available_primary_key(table), owner |-> owner,
     lat_north_edge |-> b.north, long_east_edge |-> b.east,
     lat_south_edge |-> b.south, long_west_edge |-> b.west,
     reg_end_date |-> now + seconds_in_one_year]

\* Mutant of registerland_error: the deposit is looked up before the overlap
\* scan.
registerland_error_deposit_first(owner, b, auth) ==
    IF ~has_auth(auth, owner) THEN "missing authority"
    ELSE IF geometry_error(b) # "ok" THEN geometry_error(b)
    ELSE IF owner \notin DOMAIN deposits
    THEN "User does not have a deposit opened"
    ELSE IF ~overlap_scan_ok(lands, b)
    THEN "Intersecting land has already been registered"
    ELSE IF ~balance_sufficient(deposits[owner], box_fee(b))
    THEN "User's INF deposit balance is too low"
    ELSE "ok"

\* The first failing check of registerland before any table is written.
registerland_error(owner, b, auth) ==
    IF ~has_auth(auth, owner) THEN "missing authority"
    ELSE IF geometry_error(b) # "ok" THEN geometry_error(b)
    ELSE IF ~overlap_scan_ok(lands, b)
    THEN "Intersecting land has already been registered"
    ELSE IF owner \notin DOMAIN deposits
    THEN "User does not have a deposit opened"
    ELSE IF ~balance_sufficient(deposits[owner], box_fee(b))
    THEN "User's INF deposit balance is too low"
    ELSE "ok"

\* The whole action: its outcome and the tables it leaves.
registerland_outcome(owner, b, auth, now, transfer_ok) ==
    LET err == registerland_error(owner, b, auth)
        unchanged == [err |-> err, lands |-> lands, deposits |-> deposits,
                      transfers |-> <<>>]
    IN IF err # "ok" THEN unchanged
       ELSE tx_result(transfer_ok,
                [err |-> "ok",
                 lands |-> lands \cup {new_land(lands, owner, b, now)},
                 deposits |-> debit(deposits, owner, box_fee(b)),
                 transfers |-> <<transfer_inf(Self, inf_account, box_fee(b))>>],
                [unchanged EXCEPT !.err = "inline transfer failed"])

registerland(owner, b, auth, now, transfer_ok) ==
    /\ idle
    /\ Cardinality(lands) < MaxLands
    /\ LET out == registerland_outcome(owner, b, auth, now, transfer_ok) IN
       /\ lands' = out.lands
       /\ deposits' = out.deposits
       /\ last' = [op |-> "registerland", auth |-> auth,
                   args |-> [owner |-> owner, box |-> b, now |-> now],
                   err |-> out.err, ret |-> 0, transfers |-> out.transfers]
       /\ holdings' = holdings - paid_out(out.transfers)
    /\ pre' = Tables
    /\ UNCHANGED <<persistents, poly, resolved, feeSt>>

(* ------------------------------ opendeposit ---------------------------- *)
\* Mutant of opendeposit_outcome: the row is written whether or not it exists.
opendeposit_outcome_reset(owner, auth) ==
    IF ~has_auth(auth, owner)
    THEN [err |-> "missing authority", deposits |-> deposits]
    ELSE [err |-> "ok",
          deposits |-> [o \in DOMAIN deposits \cup {owner} |->
                           IF o = owner THEN 0 ELSE deposits[o]]]

opendeposit_outcome(owner, auth) ==
    IF ~has_auth(auth, owner)
    THEN [err |-> "missing authority", deposits |-> deposits]
    ELSE IF owner \notin DOMAIN deposits
    THEN [err |-> "ok",
          deposits |-> [o \in DOMAIN deposits \cup {owner} |->
                           IF o = owner THEN 0 ELSE deposits[o]]]
    ELSE [err |-> "ok", deposits |-> deposits]

opendeposit(owner, auth) ==
    /\ idle
    /\ LET out == opendeposit_outcome(owner, auth) IN
       /\ deposits' = out.deposits
       /\ last' = [op |-> "opendeposit", auth |-> auth,
                   args |-> [owner |-> owner],
                   err |-> out.err, ret |-> 0, transfers |-> <<>>]
    /\ pre' = Tables
    /\ UNCHANGED <<lands, persistents, poly, resolved, feeSt, holdings>>

(* ----------------------------- closedeposit ---------------------------- *)
\* Mutant of refund_transfers: the refund carries one unit too few.
refund_transfers_short(owner, balance) ==
    IF balance > 0 THEN <<transfer_inf(Self, owner, balance - 1)>> ELSE <<>>

\* The refund transfers closedeposit sends for a deposit row's balance.
refund_transfers(owner, balance) ==
    IF balance > 0 THEN <<transfer_inf(Self, owner, balance)>> ELSE <<>>

\* deposits.erase: the table without the owner's row.
erase_deposit(table, owner) == [o \in DOMAIN table \ {owner} |-> table[o]]

closedeposit_outcome(owner, auth, transfer_ok) ==
    LET unchanged == [err |-> "ok", deposits |-> deposits, transfers |-> <<>>] IN
    IF ~has_auth(auth, owner)
    THEN [unchanged EXCEPT !.err = "missing authority"]
    ELSE IF owner \notin DOMAIN deposits
    THEN [unchanged EXCEPT !.err = "User does not have a deposit opened"]
    ELSE tx_result(refund_transfers(owner, deposits[owner]) = <<>> \/ transfer_ok,
             [err |-> "ok",
              deposits |-> erase_deposit(deposits, owner),
              transfers |-> refund_transfers(owner, deposits[owner])],
             [unchanged EXCEPT !.err = "inline transfer failed"])

closedeposit(owner, auth, transfer_ok) ==
    /\ idle
    /\ LET out == closedeposit_outcome(owner, auth, transfer_ok) IN
       /\ deposits' = out.deposits
       /\ last' = [op |-> "closedeposit", auth |-> auth,
                   args |-> [owner |-> owner],
                   err |-> out.err, ret |-> 0, transfers |-> out.transfers]
       /\ holdings' = holdings - paid_out(out.transfers)
    /\ pre' = Tables
    /\ UNCHANGED <<lands, persistents, poly, resolved, feeSt>>

(* ------------------------------ depositinf ----------------------------- *)
\* Mutant of depositinf_ignored: both conditions are required to return early.
depositinf_ignored_both(from, to) == from = Self /\ to # Self

\* The early return: tokens from us, or not to us.
depositinf_ignored(from, to) == from = Self \/ to # Self

\* What the transfer the token contract notifies about adds to the contract
\* account's balance: its amount when it goes to the contract from another
\* account and the notification handler does not abort the transaction.  A
\* transfer from the contract is one of its own inline transfers, taken off
\* the balance by the action that sent it.
paid_in(from, to, quantity, err) ==
    IF from # Self /\ to = Self /\ err = "ok" THEN quantity.amount ELSE 0

\* asset::is_valid: the amount is in range and the symbol well formed, which
\* every quantity the token contract notifies about is.
is_valid(quantity) == quantity.amount \in Int /\ quantity.symbol \in Symbols

\* Mutant of credit: the balance is overwritten by the quantity.
credit_overwrite(table, owner, quantity) ==
    [table EXCEPT ![owner] = quantity.amount]

\* deposits.modify: row.balance += quantity.
credit(table, owner, quantity) == [table EXCEPT ![owner] = @ + quantity.amount]

depositinf_outcome(from, to, quantity) ==
    LET unchanged == [err |-> "ok", deposits |-> deposits] IN
    IF depositinf_ignored(from, to) THEN unchanged
    ELSE IF ~(quantity.symbol = inf_symbol)
    THEN [unchanged EXCEPT !.err = "The symbol does not match"]
    ELSE IF ~is_valid(quantity)
    THEN [unchanged EXCEPT !.err = "The quantity is not valid"]
    ELSE IF ~(quantity.amount > 0)
    THEN [unchanged EXCEPT !.err = "The amount must be positive"]
    ELSE IF from \notin DOMAIN deposits
    THEN [unchanged EXCEPT !.err = "User does not have a deposit opened"]
    ELSE [err |-> "ok", deposits |-> credit(deposits, from, quantity)]

depositinf(from, to, quantity) ==
    /\ idle
    /\ LET out == depositinf_outcome(from, to, quantity) IN
       /\ \A o \in DOMAIN out.deposits : out.deposits[o] <= MaxBalance
       /\ deposits' = out.deposits
       /\ last' = [op |-> "depositinf", auth |-> {},
                   args |-> [from |-> from, to |-> to, quantity |-> quantity],
                   err |-> out.err, ret |-> 0, transfers |-> <<>>]
       /\ holdings' = holdings + paid_in(from, to, quantity, out.err)
    /\ pre' = Tables
    /\ UNCHANGED <<lands, persistents, poly, resolved, feeSt>>

(* ------------------------- ledger and registry ------------------------- *)
Accounts == Users \cup {Self}

Quantities == [amount : Amounts, symbol : Symbols]

EmptyDeposits == [o \in {} |-> 0]

\* The record of the last action is dropped; the tables are not touched.
forget ==
    /\ ~idle
    /\ last' = NoAction
    /\ pre' = Tables
    /\ UNCHANGED <<lands, deposits, persistents, poly, resolved, feeSt,
                   holdings>>

Init ==
    /\ lands = {}
    /\ deposits = EmptyDeposits
    /\ persistents = {}
    /\ poly = {}
    /\ last = NoAction
    /\ pre = [lands |-> {}, deposits |-> EmptyDeposits,
              persistents |-> {}, poly |-> {}, holdings |-> 0]
    /\ resolved = NoResolution
    /\ feeSt = <<>>
    /\ holdings = 0

Next ==
    \/ \E owner \in Users, b \in Boxes, auth \in Auths, now \in Times,
          transfer_ok \in BOOLEAN :
          registerland(owner, b, auth, now, transfer_ok)
    \/ \E owner \in Users, auth \in Auths : opendeposit(owner, auth)
    \/ \E owner \in Users, auth \in Auths, transfer_ok \in BOOLEAN :
          closedeposit(owner, auth, transfer_ok)
    \/ \E from \in Accounts, to \in {Self, "alice"}, quantity \in Quantities :
          depositinf(from, to, quantity)
    \/ forget

Spec == Init /\ [][Next]_vars

(* ------------------------------ placements ----------------------------- *)
\* vector3 components are integers in tenths.
VecUnit == 10

Vec(x, y, z) == [x |-> x, y |-> y, z |-> z]

\* <<position, orientation, scale>> triples a caller may submit: two within
\* bounds (the second on the bounds' edges) and one outside each bound.
VecInputs ==
    { [position |-> Vec(5, 0, 5), orientation |-> Vec(0, 0, 0),
       scale |-> Vec(10, 10, 10)],
      [position |-> Vec(1, 0, 9), orientation |-> Vec(3599, 0, 900),
       scale |-> Vec(2, 2, 2)],
      [position |-> Vec(5, 1, 5), orientation |-> Vec(0, 0, 0),
       scale |-> Vec(10, 10, 10)],
      [position |-> Vec(5, 0, 5), orientation |-> Vec(0, 3600, 0),
       scale |-> Vec(10, 10, 10)],
      [position |-> Vec(5, 0, 5), orientation |-> Vec(0, 0, 0),
       scale |-> Vec(10, 1, 10)] }

\* Poly ids a caller may submit: two of 11 characters and one shorter.
PolyIds == {"ABCDEFGHIJK", "LMNOPQRSTUV", "SHORT"}

\* assert_vectors_within_bounds: the first failing assert, or "ok".
assert_vectors_within_bounds(v) ==
    IF ~(/\ v.position.x > 0 /\ v.position.y = 0 /\ v.position.z > 0
         /\ v.position.x < 1 * VecUnit /\ v.position.z < 1 * VecUnit)
    THEN "Asset position is not within land bounds"
    ELSE IF ~(/\ v.orientation.x >= 0 /\ v.orientation.x < 360 * VecUnit
              /\ v.orientation.y >= 0 /\ v.orientation.y < 360 * VecUnit
              /\ v.orientation.z >= 0 /\ v.orientation.z < 360 * VecUnit)
    THEN "Asset orientation must be within 0 and 360"
    ELSE IF ~(/\ v.scale.x >= 2 /\ v.scale.y >= 2 /\ v.scale.z >= 2)
    THEN "Asset scale must be at least 0.2"
    ELSE "ok"

\* table.find(id): the rows with that primary key (none or one).
find(table, id) == {r \in table : r.id = id}

\* The row of a primary key known to be in the table.
row_of(table, id) == CHOOSE r \in table : r.id = id

\* require_land_owner_auth: the first failing check, or "ok".
require_land_owner_auth(land_id, auth) ==
    IF find(lands, land_id) = {} THEN "Land Id does not exist"
    ELSE IF ~has_auth(auth, row_of(lands, land_id).owner) THEN "missing authority"
    ELSE "ok"

\* get_land_id_from_persistent: the assert on the persistent id.
get_land_id_error(persistent_id) ==
    IF find(persistents, persistent_id) = {} THEN "Persistent Id does not exist"
    ELSE "ok"

\* source_and_asset_id: (uint128_t) source << 64 | asset_id, as the pair of
\* its high and low 64-bit halves.
pack(source, asset_id) == <<source, asset_id>>

\* (uint64_t)(source_and_asset_id >> 64)
unpack_source(source_and_asset_id) == source_and_asset_id[1]

\* Mutant of unpack_asset_id: the high half of the key is taken.
unpack_asset_id_high(source_and_asset_id) == source_and_asset_id[1]

\* (uint64_t) source_and_asset_id
unpack_asset_id(source_and_asset_id) == source_and_asset_id[2]

\* Mutant of user_matches: the scan does not stop at the user's rows.
user_matches_anyone(user, poly_id) == {r \in poly : r.poly_id = poly_id}

\* Mutant of user_matches: the scan finds no row.
user_matches_none(user, poly_id) == {}

\* The scan of add_poly over the user's rows of the "byuser" index (ordered
\* by primary key within a user): the rows with the poly id.
user_matches(user, poly_id) ==
    {r \in poly : r.user = user /\ r.poly_id = poly_id}

\* add_poly: the id returned and the poly table it leaves.  Its require_auth
\* asks for the land owner's authority, which require_land_owner_auth has
\* asked for already.
add_poly(user, poly_id) ==
    IF ~(Len(poly_id) = 11)
    THEN [err |-> "Poly Id format is invalid", id |-> -1, poly |-> poly]
    ELSE IF user_matches(user, poly_id) # {}
    THEN [err |-> "ok",
          id |-> (CHOOSE r \in user_matches(user, poly_id) :
                     \A q \in user_matches(user, poly_id) : r.id <= q.id).id,
          poly |-> poly]
    ELSE [err |-> "ok", id |-> available_primary_key(poly),
          poly |-> poly \cup {[id |-> available_primary_key(poly),
                               user |-> user, poly_id |-> poly_id]}]

(* ------------------------------ persistpoly ---------------------------- *)
persistpoly_outcome(land_id, poly_id, v, auth) ==
    LET unchanged == [err |-> "ok", persistents |-> persistents, poly |-> poly,
                      asset_id |-> -1, id |-> -1]
        user == row_of(lands, land_id).owner
        added == add_poly(user, poly_id)
    IN IF require_land_owner_auth(land_id, auth) # "ok"
       THEN [unchanged EXCEPT !.err = require_land_owner_auth(land_id, auth)]
       ELSE IF assert_vectors_within_bounds(v) # "ok"
       THEN [unchanged EXCEPT !.err = assert_vectors_within_bounds(v)]
       ELSE IF added.err # "ok"
       THEN [unchanged EXCEPT !.err = added.err]
       ELSE [err |-> "ok",
             persistents |-> persistents \cup
                 {[id |-> available_primary_key(persistents),
                   land_id |-> land_id,
                   source_and_asset_id |-> pack(POLY, added.id),
                   position |-> v.position,
                   orientation |-> v.orientation,
                   scale |-> v.scale]},
             poly |-> added.poly,
             asset_id |-> added.id,
             id |-> available_primary_key(persistents)]

persistpoly(land_id, poly_id, v, auth) ==
    /\ idle
    /\ Cardinality(persistents) < MaxPersistents
    /\ available_primary_key(persistents) <= MaxPersistentId
    /\ available_primary_key(poly) <= MaxPolyId
    /\ LET out == persistpoly_outcome(land_id, poly_id, v, auth) IN
       /\ persistents' = out.persistents
       /\ poly' = out.poly
       /\ resolved' = IF out.err = "ok"
                       THEN [user |-> row_of(lands, land_id).owner,
                             poly_id |-> poly_id, id |-> out.asset_id]
                       ELSE resolved
       /\ last' = [op |-> "persistpoly", auth |-> auth,
                   args |-> [land_id |-> land_id, poly_id |-> poly_id, v |-> v],
                   err |-> out.err,
                   ret |-> [asset_id |-> out.asset_id, id |-> out.id,
                            before |-> resolved],
                   transfers |-> <<>>]
    /\ pre' = Tables
    /\ UNCHANGED <<lands, deposits, feeSt, holdings>>

(* ------------------------------ updatepersis --------------------------- *)
\* Mutant of moves: the new land's owner is never asked.
moves_unchecked(land_id, old_land_id) == FALSE

\* The second authorisation of updatepersis is asked for a move only.
moves(land_id, old_land_id) == land_id # old_land_id

updatepersis_error(persistent_id, land_id, v, auth) ==
    LET old_land_id == row_of(persistents, persistent_id).land_id IN
    IF get_land_id_error(persistent_id) # "ok"
    THEN get_land_id_error(persistent_id)
    ELSE IF require_land_owner_auth(old_land_id, auth) # "ok"
    THEN require_land_owner_auth(old_land_id, auth)
    ELSE IF moves(land_id, old_land_id)
            /\ require_land_owner_auth(land_id, auth) # "ok"
    THEN require_land_owner_auth(land_id, auth)
    ELSE assert_vectors_within_bounds(v)

\* Mutant of updatepersis_outcome: every row of the table is modified.
updatepersis_outcome_all(persistent_id, land_id, v, auth) ==
    LET err == updatepersis_error(persistent_id, land_id, v, auth) IN
    IF err # "ok" THEN [err |-> err, persistents |-> persistents]
    ELSE [err |-> "ok",
          persistents |->
              {[r EXCEPT !.land_id = land_id,
                         !.position = v.position,
                         !.orientation = v.orientation,
                         !.scale = v.scale] : r \in persistents}]

updatepersis_outcome(persistent_id, land_id, v, auth) ==
    LET err == updatepersis_error(persistent_id, land_id, v, auth) IN
    IF err # "ok" THEN [err |-> err, persistents |-> persistents]
    ELSE [err |-> "ok",
          persistents |->
              {IF r.id = persistent_id
               THEN [r EXCEPT !.land_id = land_id,
                              !.position = v.position,
                              !.orientation = v.orientation,
                              !.scale = v.scale]
               ELSE r : r \in persistents}]

updatepersis(persistent_id, land_id, v, auth) ==
    /\ idle
    /\ LET out == updatepersis_outcome(persistent_id, land_id, v, auth) IN
       /\ persistents' = out.persistents
       /\ last' = [op |-> "updatepersis", auth |-> auth,
                   args |-> [persistent_id |-> persistent_id,
                             land_id |-> land_id, v |-> v],
                   err |-> out.err, ret |-> 0, transfers |-> <<>>]
    /\ pre' = Tables
    /\ UNCHANGED <<lands, deposits, poly, resolved, feeSt, holdings>>

(* ------------------------------ deletepersis --------------------------- *)
\* Mutant of still_placed: the index lookup never finds a row.
still_placed_never(table, source_and_asset_id) == FALSE

\* asset_id_index.find(source_and_asset_id) # end: some row of the table
\* carries the composite key.
still_placed(table, source_and_asset_id) ==
    \E r \in table : r.source_and_asset_id = source_and_asset_id

deletepersis_outcome(persistent_id, auth) ==
    LET unchanged == [err |-> "ok", persistents |-> persistents, poly |-> poly]
        row == row_of(persistents, persistent_id)
        source_and_asset_id == row.source_and_asset_id
        erased == persistents \ {row}
    IN IF get_land_id_error(persistent_id) # "ok"
       THEN [unchanged EXCEPT !.err = get_land_id_error(persistent_id)]
       ELSE IF require_land_owner_auth(row.land_id, auth) # "ok"
       THEN [unchanged EXCEPT !.err = require_land_owner_auth(row.land_id, auth)]
       ELSE IF unpack_source(source_and_asset_id) = POLY
               /\ ~still_placed(erased, source_and_asset_id)
       THEN IF find(poly, unpack_asset_id(source_and_asset_id)) = {}
            THEN [unchanged EXCEPT !.err = "cannot pass end iterator to erase"]
            ELSE [err |-> "ok", persistents |-> erased,
                  poly |-> poly \ find(poly, unpack_asset_id(source_and_asset_id))]
       ELSE [err |-> "ok", persistents |-> erased, poly |-> poly]

deletepersis(persistent_id, auth) ==
    /\ idle
    /\ LET out == deletepersis_outcome(persistent_id, auth) IN
       /\ persistents' = out.persistents
       /\ poly' = out.poly
       /\ last' = [op |-> "deletepersis", auth |-> auth,
                   args |-> [persistent_id |-> persistent_id],
                   err |-> out.err, ret |-> 0, transfers |-> <<>>]
    /\ pre' = Tables
    /\ UNCHANGED <<lands, deposits, resolved, feeSt, holdings>>

(* -------------------- placements on registered lands ------------------- *)
\* Three lands registered in turn: alice's, bob's, alice's.
Land0 == new_land({}, "alice", BoxA, 1600000000)
Land1 == new_land({Land0}, "bob", BoxB, 1600000000)
Land2 == new_land({Land0, Land1}, "alice", BoxD, 1600000000)
PlaceLands == {Land0, Land1, Land2}

\* The placement actions start after the three registrations, with the
\* deposits closed again.
PlaceInit ==
    /\ lands = PlaceLands
    /\ deposits = EmptyDeposits
    /\ persistents = {}
    /\ poly = {}
    /\ last = NoAction
    /\ pre = [lands |-> PlaceLands, deposits |-> EmptyDeposits,
              persistents |-> {}, poly |-> {}, holdings |-> 0]
    /\ resolved = NoResolution
    /\ feeSt = <<>>
    /\ holdings = 0

LandIds == 0..MaxLands
PersistentIds == 0..MaxPersistentId

PlaceNext ==
    \/ \E land_id \in LandIds, poly_id \in PolyIds, v \in VecInputs,
          auth \in Auths : persistpoly(land_id, poly_id, v, auth)
    \/ \E persistent_id \in PersistentIds, land_id \in LandIds,
          v \in VecInputs, auth \in Auths :
          updatepersis(persistent_id, land_id, v, auth)
    \/ \E persistent_id \in PersistentIds, auth \in Auths :
          deletepersis(persistent_id, auth)
    \/ forget

PlaceSpec == PlaceInit /\ [][PlaceNext]_vars

(* --------------------------- fee calculation --------------------------- *)
\* Side lengths (in length units) the fee is computed for: below, at and
\* above one metre, up to the maximum land length.
Sides == {0, 1, 19, 20, 21, 30, 50, max_land_length * LenPerMeter}

\* The fee computed for the sides <<a, b>>, next to the one computed before.
fee_record(a, b, before) ==
    [a |-> a, b |-> b, reg_fee |-> reg_fee(<<a, b>>),
     amount |-> inf_amount(<<a, b>>), before |-> before]

FeeInit ==
    /\ lands = {}
    /\ deposits = EmptyDeposits
    /\ persistents = {}
    /\ poly = {}
    /\ last = NoAction
    /\ pre = [lands |-> {}, deposits |-> EmptyDeposits,
              persistents |-> {}, poly |-> {}, holdings |-> 0]
    /\ resolved = NoResolution
    /\ \E a \in Sides, b \in Sides : feeSt = fee_record(a, b, <<>>)
    /\ holdings = 0

compute_fee(a, b) ==
    /\ feeSt' = fee_record(a, b, [feeSt EXCEPT !.before = <<>>])
    /\ UNCHANGED <<lands, deposits, persistents, poly, last, pre, resolved,
                   holdings>>

FeeNext == \E a \in Sides, b \in Sides : compute_fee(a, b)

FeeSpec == FeeInit /\ [][FeeNext]_vars

(* ------------------- registrations around the scan window -------------- *)
\* Latitude spans <<south, north>> around a land of the maximum height
\* (0 to 1000): the land itself, one touching it from the south, one crossing
\* its south edge, one inside it, one touching it from the north, one crossing
\* its north edge, and one a unit higher than the maximum.
ScanLatSpans ==
    { <<0, meters_to_lat_dist(max_land_length)>>,
      <<-10, 0>>, <<-9, 1>>, <<490, 500>>,
      <<meters_to_lat_dist(max_land_length),
        meters_to_lat_dist(max_land_length) + 10>>,
      <<meters_to_lat_dist(max_land_length) - 5,
        meters_to_lat_dist(max_land_length) + 5>>,
      <<0, meters_to_lat_dist(max_land_length) + 1>> }

\* Longitude spans <<west, east>>: two side by side and one across both.
ScanLonSpans == { <<0, 10>>, <<10, 20>>, <<5, 15>> }

ScanBoxes ==
    { Box(lat[2], lon[2], lat[1], lon[1]) : lat \in ScanLatSpans,
                                            lon \in ScanLonSpans }

ScanOwner == "alice"

\* A deposit that pays for MaxLands lands of the maximum height.
ScanFunds == (MaxLands + 1) * box_fee(Box(meters_to_lat_dist(max_land_length),
                                          10, 0, 0))

\* The owner has opened a deposit and transferred ScanFunds to the contract.
ScanInit ==
    /\ lands = {}
    /\ deposits = [o \in {ScanOwner} |-> ScanFunds]
    /\ persistents = {}
    /\ poly = {}
    /\ last = NoAction
    /\ pre = [lands |-> {}, deposits |-> [o \in {ScanOwner} |-> ScanFunds],
              persistents |-> {}, poly |-> {}, holdings |-> ScanFunds]
    /\ resolved = NoResolution
    /\ feeSt = <<>>
    /\ holdings = ScanFunds

ScanNext ==
    \/ \E b \in ScanBoxes, now \in Times, transfer_ok \in BOOLEAN :
          registerland(ScanOwner, b, {ScanOwner}, now, transfer_ok)
    \/ forget

ScanSpec == ScanInit /\ [][ScanNext]_vars

(* ------------------------ all actions, one contract -------------------- *)
\* Every action of the contract, from empty tables, each called by one user
\* with their own authority, over a reduced choice of inputs.
WorldBoxes == {BoxA, BoxB, BoxC}

WorldVecs ==
    { [position |-> Vec(5, 0, 5), orientation |-> Vec(0, 0, 0),
       scale |-> Vec(10, 10, 10)],
      [position |-> Vec(5, 1, 5), orientation |-> Vec(0, 0, 0),
       scale |-> Vec(10, 10, 10)] }

WorldPolyIds == {"ABCDEFGHIJK"}

WorldQuantities == {[amount |-> 100000, symbol |-> inf_symbol]}

WorldNext ==
    \/ \E owner \in Users, b \in WorldBoxes, now \in Times,
          transfer_ok \in BOOLEAN :
          registerland(owner, b, {owner}, now, transfer_ok)
    \/ \E owner \in Users : opendeposit(owner, {owner})
    \/ \E owner \in Users, transfer_ok \in BOOLEAN :
          closedeposit(owner, {owner}, transfer_ok)
    \/ \E from \in Users, quantity \in WorldQuantities :
          depositinf(from, Self, quantity)
    \/ \E land_id \in LandIds, poly_id \in WorldPolyIds, v \in WorldVecs,
          user \in Users : persistpoly(land_id, poly_id, v, {user})
    \/ \E persistent_id \in PersistentIds, land_id \in LandIds,
          v \in WorldVecs, user \in Users :
          updatepersis(persistent_id, land_id, v, {user})
    \/ \E persistent_id \in PersistentIds, user \in Users :
          deletepersis(persistent_id, {user})
    \/ forget

WorldSpec == Init /\ [][WorldNext]_vars

(* ------------------------------ properties ----------------------------- *)
\* C8: the registration fee is non-decreasing in each side length, and is
\* exactly the rate (inf_per_sqm INF) for a box whose two sides are both at
\* most one metre.
C8_FeeMonotone ==
    /\ (feeSt.before # <<>> /\ feeSt.before.a <= feeSt.a
                            /\ feeSt.before.b <= feeSt.b)
          => (/\ feeSt.before.reg_fee <= feeSt.reg_fee
              /\ feeSt.before.amount <= feeSt.amount)
    /\ (feeSt.a <= 1 * LenPerMeter /\ feeSt.b <= 1 * LenPerMeter)
          => (/\ feeSt.reg_fee = inf_per_sqm
              /\ feeSt.amount = inf_per_sqm * inf_precision)

\* C8 witness: a fee for sides under one metre was computed after the fee
\* for a box smaller still on both sides.
C8_Witness ==
    /\ feeSt.before # <<>>
    /\ feeSt.before.a < feeSt.a /\ feeSt.before.b < feeSt.b
    /\ feeSt.a < 1 * LenPerMeter /\ feeSt.b < 1 * LenPerMeter

\* Two land rows whose open boxes do not intersect: one lies entirely east,
\* west, north or south of the other (a shared edge is allowed).
Apart(p, q) ==
    \/ p.long_east_edge <= q.long_west_edge
    \/ p.long_west_edge >= q.long_east_edge
    \/ p.lat_south_edge >= q.lat_north_edge
    \/ p.lat_north_edge <= q.lat_south_edge

\* C1: after any sequence of registerland calls, successful or failed, every
\* two distinct stored parcels have boxes whose open interiors do not
\* intersect; touching edges are allowed.
C1_NoOverlap ==
    \A p \in lands : \A q \in lands : p # q => Apart(p, q)

\* C1 witness: a registration succeeded next to a stored parcel it shares an
\* edge with.
C1_Witness ==
    /\ last.op = "registerland" /\ last.err = "ok"
    /\ \E p \in lands : \E q \in lands :
          /\ p.id # q.id
          /\ p.lat_south_edge = q.lat_north_edge
          /\ p.long_west_edge < q.long_east_edge
          /\ q.long_west_edge < p.long_east_edge

\* C2: a registerland that fails at any stage (authority, geometry, size,
\* overlap, missing deposit, low balance, failed fee transfer) leaves every
\* table as it was and issues no transfer.
C2_RegistrationAtomic ==
    (last.op = "registerland" /\ last.err # "ok")
        => (Tables = pre /\ last.transfers = <<>>)

\* C2 witness: a registration passed every check and failed at the fee
\* transfer, after the point where the code has debited the deposit.
C2_Witness ==
    /\ last.op = "registerland"
    /\ last.err = "inline transfer failed"
    /\ last.args.owner \in DOMAIN deposits
    /\ deposits[last.args.owner] >= box_fee(last.args.box)

\* C3: every deposit balance is >= 0, and a balance only ever decreases in a
\* successful registerland whose owner held at least the fee beforehand.
C3_BalanceNonNegative ==
    /\ \A o \in DOMAIN deposits : deposits[o] >= 0
    /\ \A o \in DOMAIN deposits \cap DOMAIN pre.deposits :
          deposits[o] < pre.deposits[o] =>
             /\ last.op = "registerland" /\ last.err = "ok"
             /\ last.args.owner = o
             /\ pre.deposits[o] >= box_fee(last.args.box)
             /\ deposits[o] = pre.deposits[o] - box_fee(last.args.box)

\* C3 witness: a registration debited a deposit that held exactly the fee.
C3_Witness ==
    /\ last.op = "registerland" /\ last.err = "ok"
    /\ deposits[last.args.owner] = 0
    /\ pre.deposits[last.args.owner] > 0

\* C6: an authorised closedeposit whose refund goes through, on an owner with
\* a deposit, sends one transfer of exactly the stored balance from the
\* contract to the owner when the balance is > 0 (none when it is 0) and
\* removes the row, leaving the other rows alone; on an owner with no deposit
\* it fails with "User does not have a deposit opened" and changes nothing.
C6_CloseDeposit ==
    (last.op = "closedeposit" /\ last.args.owner \in last.auth) =>
        LET o == last.args.owner IN
        IF o \in DOMAIN pre.deposits
        THEN \/ /\ last.err = "inline transfer failed"
                /\ pre.deposits[o] > 0
                /\ Tables = pre
                /\ last.transfers = <<>>
             \/ /\ last.err = "ok"
                /\ last.transfers =
                     IF pre.deposits[o] > 0
                     THEN << [from |-> Self, to |-> o,
                              amount |-> pre.deposits[o],
                              symbol |-> inf_symbol] >>
                     ELSE <<>>
                /\ DOMAIN deposits = DOMAIN pre.deposits \ {o}
                /\ \A u \in DOMAIN deposits : deposits[u] = pre.deposits[u]
        ELSE /\ last.err = "User does not have a deposit opened"
             /\ Tables = pre
             /\ last.transfers = <<>>

\* C6 witness: a deposit with a positive balance was closed and refunded
\* while another owner's deposit stayed open.
C6_Witness ==
    /\ last.op = "closedeposit" /\ last.err = "ok"
    /\ pre.deposits[last.args.owner] > 0
    /\ Len(last.transfers) = 1
    /\ DOMAIN deposits # {}

\* The notification is one the contract acts on.
Addressed == last.args.to = Self /\ last.args.from # Self

\* C7: an accepted depositinf (to = the contract, from # the contract) adds
\* exactly the quantity to from's balance and changes no other row; it is
\* rejected, with the balances unchanged, when the symbol is not INF, when
\* the amount is <= 0, or when from has no deposit.
C7_Credit ==
    (last.op = "depositinf" /\ Addressed) =>
        LET q == last.args.quantity
            from == last.args.from
            bad == \/ q.symbol # inf_symbol
                   \/ q.amount <= 0
                   \/ from \notin DOMAIN pre.deposits
        IN /\ bad => (last.err # "ok" /\ Tables = pre)
           /\ (q.symbol = inf_symbol /\ q.amount > 0
                 /\ from \notin DOMAIN pre.deposits)
                 => last.err = "User does not have a deposit opened"
           /\ ~bad =>
                /\ last.err = "ok"
                /\ DOMAIN deposits = DOMAIN pre.deposits
                /\ deposits[from] = pre.deposits[from] + q.amount
                /\ \A u \in DOMAIN deposits \ {from} :
                      deposits[u] = pre.deposits[u]
                /\ lands = pre.lands

\* C7 witness: a transfer was credited on top of a positive balance while
\* another owner had a deposit.
C7_Witness ==
    /\ last.op = "depositinf" /\ Addressed /\ last.err = "ok"
    /\ pre.deposits[last.args.from] > 0
    /\ DOMAIN deposits # {last.args.from}

\* C10: a notification with to # the contract or from = the contract ends
\* without error and leaves every table unchanged, whatever the symbol, the
\* amount, or from's deposit.
C10_Ignored ==
    (last.op = "depositinf" /\ ~Addressed) =>
        (last.err = "ok" /\ Tables = pre)

\* C10 witness: a positive INF transfer from an owner with a deposit, not
\* addressed to the contract, was ignored.
C10_Witness ==
    /\ last.op = "depositinf" /\ last.args.to # Self
    /\ last.args.from \in DOMAIN deposits
    /\ last.args.quantity.symbol = inf_symbol
    /\ last.args.quantity.amount > 0

\* The placement row a deletepersis or updatepersis named, as it was before.
TargetRow == row_of(pre.persistents, last.args.persistent_id)

\* C4: a successful deletepersis removes the poly row named by the deleted
\* placement's composite key if and only if no remaining placement carries
\* that key; when one does, the poly table is left unchanged.
C4_RefCountedCleanup ==
    (last.op = "deletepersis" /\ last.err = "ok") =>
        LET key == TargetRow.source_and_asset_id IN
        /\ TargetRow \in pre.persistents
        /\ persistents = pre.persistents \ {TargetRow}
        /\ IF \E q \in persistents : q.source_and_asset_id = key
           THEN poly = pre.poly
           ELSE /\ \E r \in pre.poly : r.id = key[2] /\ poly = pre.poly \ {r}
                /\ \A r \in poly : r.id # key[2]

\* C4 witness: the first of two placements of one asset was deleted and the
\* poly row survived.
C4_Witness ==
    /\ last.op = "deletepersis" /\ last.err = "ok"
    /\ \E q \in persistents :
          q.source_and_asset_id = TargetRow.source_and_asset_id
    /\ \E r \in poly : r.id = TargetRow.source_and_asset_id[2]

\* The second case of C4: the last placement of an asset was deleted and its
\* poly row removed.
C4_LastDeleted ==
    /\ last.op = "deletepersis" /\ last.err = "ok"
    /\ poly # pre.poly
    /\ persistents # {}

\* The owner persistpoly resolved the poly id for.
PersistUser == row_of(pre.lands, last.args.land_id).owner

\* Same pair, same id: a successful persistpoly for a (user, poly id) pair that
\* has a poly row returns that row's id and adds no row; in any case the id
\* returned names a row of that user and poly id.
SamePairSameId ==
    (last.op = "persistpoly" /\ last.err = "ok") =>
        /\ \A r \in pre.poly :
              (r.user = PersistUser /\ r.poly_id = last.args.poly_id)
                 => (last.ret.asset_id = r.id /\ poly = pre.poly)
        /\ \E r \in poly : /\ r.id = last.ret.asset_id
                           /\ r.user = PersistUser
                           /\ r.poly_id = last.args.poly_id
        /\ \E q \in persistents :
              /\ q.id = last.ret.id
              /\ q.source_and_asset_id = <<POLY, last.ret.asset_id>>

\* C5 as stated: the same (owner, poly id) pair resolves to the same id while
\* its row is not deleted, and the same poly id resolved for two different
\* owners yields two distinct ids (here: for the owner of this persistpoly
\* and the owner of the resolution before it).
C5_Original ==
    /\ SamePairSameId
    /\ (last.op = "persistpoly" /\ last.err = "ok"
          /\ last.ret.before.poly_id = last.args.poly_id
          /\ last.ret.before.user # PersistUser)
         => last.ret.before.id # last.ret.asset_id

\* C5 amended: the same (owner, poly id) pair resolves to the same id while
\* its row is not deleted, and the id resolved for one owner differs from the
\* id of every poly row another owner holds for the same poly id at that time.
C5_Dedup ==
    /\ SamePairSameId
    /\ (last.op = "persistpoly" /\ last.err = "ok") =>
          \A r \in poly :
             (r.poly_id = last.args.poly_id /\ r.user # PersistUser)
                => r.id # last.ret.asset_id

\* C5 witness: a poly id was resolved for one owner, creating a row, while
\* another owner held a row for the same poly id.
C5_Witness ==
    /\ last.op = "persistpoly" /\ last.err = "ok"
    /\ poly # pre.poly
    /\ \E r \in poly : /\ r.user # PersistUser
                       /\ r.poly_id = last.args.poly_id

\* The first case of C5: a poly id was resolved a second time for the same
\* owner, on another land, to the row already there.
C5_SamePairAgain ==
    /\ last.op = "persistpoly" /\ last.err = "ok"
    /\ poly = pre.poly
    /\ \E q \in pre.persistents :
          /\ q.source_and_asset_id = <<POLY, last.ret.asset_id>>
          /\ q.land_id # last.args.land_id

\* The placement actions start from tables the registry reaches.
PlaceInitReached ==
    lands = PlaceLands /\ deposits = EmptyDeposits /\ idle

PlaceOps == {"persistpoly", "updatepersis", "deletepersis"}

\* The ids the last placement action named were in the tables.
IdsKnown ==
    IF last.op = "persistpoly" THEN find(pre.lands, last.args.land_id) # {}
    ELSE IF last.op = "deletepersis"
    THEN find(pre.persistents, last.args.persistent_id) # {}
    ELSE /\ find(pre.persistents, last.args.persistent_id) # {}
         /\ find(pre.lands, last.args.land_id) # {}

\* The land owners whose authority the last placement action needed.
OwnersNeeded ==
    IF last.op = "persistpoly"
    THEN {row_of(pre.lands, last.args.land_id).owner}
    ELSE IF last.op = "deletepersis"
    THEN {row_of(pre.lands, TargetRow.land_id).owner}
    ELSE {row_of(pre.lands, TargetRow.land_id).owner}
         \cup (IF last.args.land_id # TargetRow.land_id
               THEN {row_of(pre.lands, last.args.land_id).owner} ELSE {})

\* C9: a placement action takes effect only with the authority of the owner
\* of the land (persistpoly), of the placement's current land (deletepersis),
\* or of the current land and, for a move, of the new land (updatepersis);
\* without it, it fails with "missing authority" (or with the unknown-id
\* error for an absent land or placement) and no table changes.
C9_Authorization ==
    (last.op \in PlaceOps) =>
        /\ last.err = "ok" => (IdsKnown /\ OwnersNeeded \subseteq last.auth)
        /\ ~IdsKnown =>
              /\ last.err \in {"Land Id does not exist",
                               "Persistent Id does not exist",
                               "missing authority"}
              /\ Tables = pre
        /\ (IdsKnown /\ ~(OwnersNeeded \subseteq last.auth)) =>
              (last.err = "missing authority" /\ Tables = pre)

\* C9 witness: a placement was moved to a land of another owner, with the
\* authority of both owners.
C9_Witness ==
    /\ last.op = "updatepersis" /\ last.err = "ok"
    /\ Cardinality(OwnersNeeded) = 2

\* A move to another owner's land was refused for want of that owner's
\* authority, the current land's owner having given theirs.
C9_MoveRefused ==
    /\ last.op = "updatepersis" /\ last.err = "missing authority"
    /\ IdsKnown
    /\ row_of(pre.lands, TargetRow.land_id).owner \in last.auth

\* The id the next emplaced parcel gets: 0 in an empty table, else one more
\* than the largest id stored.
NextLandId(table) ==
    IF table = {} THEN 0
    ELSE 1 + (CHOOSE i \in {r.id : r \in table} : \A r \in table : r.id <= i)

\* C11: a successful registerland decreases the owner's balance by exactly
\* the fee, sends one transfer of exactly that fee from the contract to the
\* token-issuing account, leaves every other deposit as it was, and stores
\* exactly one new parcel, with the given owner and edges, under the next id
\* (0 for the first parcel), with reg_end_date = now + one year.
C11_RegisterEffect ==
    (last.op = "registerland" /\ last.err = "ok") =>
        LET owner == last.args.owner
            b     == last.args.box
            fee   == box_fee(b)
        IN /\ owner \in DOMAIN pre.deposits
           /\ DOMAIN deposits = DOMAIN pre.deposits
           /\ deposits[owner] = pre.deposits[owner] - fee
           /\ \A o \in DOMAIN deposits \ {owner} : deposits[o] = pre.deposits[o]
           /\ last.transfers = << [from |-> Self, to |-> inf_account,
                                   amount |-> fee, symbol |-> inf_symbol] >>
           /\ pre.lands \subseteq lands
           /\ lands \ pre.lands =
                 { [id |-> NextLandId(pre.lands), owner |-> owner,
                    lat_north_edge |-> b.north, long_east_edge |-> b.east,
                    lat_south_edge |-> b.south, long_west_edge |-> b.west,
                    reg_end_date |-> last.args.now + seconds_in_one_year] }

\* C11 witness: a registration succeeded in a table that already held a
\* parcel, while another owner held a deposit with a balance.
C11_Witness ==
    /\ last.op = "registerland" /\ last.err = "ok"
    /\ pre.lands # {}
    /\ \E o \in DOMAIN deposits \ {last.args.owner} : deposits[o] > 0

\* The first parcel ever registered got id 0.
C11_FirstParcel ==
    /\ last.op = "registerland" /\ last.err = "ok"
    /\ pre.lands = {}
    /\ \E r \in lands : r.id = 0

\* C12: an authorised opendeposit never fails; for an owner with no deposit it
\* creates a row with balance zero, for an owner with a deposit it leaves the
\* row, whatever its balance, as it was; and a second opendeposit run in the
\* state the first one left changes nothing (open;open = open).
C12_OpenIdempotent ==
    (last.op = "opendeposit" /\ last.args.owner \in last.auth) =>
        LET owner == last.args.owner
            again == opendeposit_outcome(owner, last.auth)
        IN /\ last.err = "ok"
           /\ last.transfers = <<>>
           /\ owner \notin DOMAIN pre.deposits =>
                 /\ DOMAIN deposits = DOMAIN pre.deposits \cup {owner}
                 /\ deposits[owner] = 0
                 /\ \A o \in DOMAIN pre.deposits : deposits[o] = pre.deposits[o]
           /\ owner \in DOMAIN pre.deposits => deposits = pre.deposits
           /\ [Tables EXCEPT !.deposits = pre.deposits] = pre
           /\ again.err = "ok"
           /\ again.deposits = deposits

\* C12 witness: opendeposit ran for an owner whose deposit held a balance.
C12_Witness ==
    /\ last.op = "opendeposit" /\ last.err = "ok"
    /\ last.args.owner \in DOMAIN pre.deposits
    /\ pre.deposits[last.args.owner] > 0

\* opendeposit created a row next to another owner's funded deposit.
C12_Created ==
    /\ last.op = "opendeposit" /\ last.err = "ok"
    /\ last.args.owner \notin DOMAIN pre.deposits
    /\ \E o \in DOMAIN pre.deposits : pre.deposits[o] > 0

\* The conditions a registerland request can violate, in the claimed order of
\* stages (validation: north > south, east > west, latitude bounds, longitude
\* bounds, size limit; then overlap; then the debit: deposit row, balance),
\* each with the message of its assert. Evaluated on the tables before the
\* action; the fee is computed for boxes within the size limit only.
Violations(owner, b, tables) ==
    LET land_size == lat_long_to_meters(b.north, b.south, b.east, b.west)
        limit     == max_land_length * LenPerMeter
        deg       == UnitsPerDegree
    IN << << b.north <= b.south,
             "North edge must have greater latitude than south edge" >>,
          << b.east <= b.west,
             "East edge must have greater longitude than west edge" >>,
          << b.north >= 85 * deg,
             "Latitude cannot be greater than 85 degrees" >>,
          << b.south <= -85 * deg,
             "Latitude cannot be less than -85 degrees" >>,
          << \E x \in {b.east, b.west} : x > 180 * deg \/ x <= -180 * deg,
             "Longitude must be between -180 and 180 degrees" >>,
          << land_size[1] > limit \/ land_size[2] > limit,
             "Land cannot exceed a length of 100 meters on either side" >>,
          << \E p \in tables.lands :
                /\ p.long_west_edge < b.east /\ b.west < p.long_east_edge
                /\ p.lat_south_edge < b.north /\ b.south < p.lat_north_edge,
             "Intersecting land has already been registered" >>,
          << owner \notin DOMAIN tables.deposits,
             "User does not have a deposit opened" >>,
          << /\ owner \in DOMAIN tables.deposits
             /\ land_size[1] <= limit /\ land_size[2] <= limit
             /\ tables.deposits[owner] < box_fee(b),
             "User's INF deposit balance is too low" >> >>

\* The message of the earliest violated condition, "ok" when there is none.
FirstViolation(owner, b, tables) ==
    LET v    == Violations(owner, b, tables)
        hits == {i \in 1..Len(v) : v[i][1]}
    IN IF hits = {} THEN "ok"
       ELSE v[CHOOSE i \in hits : \A j \in hits : i <= j][2]

ViolationCount(owner, b, tables) ==
    LET v == Violations(owner, b, tables) IN
    Cardinality({i \in 1..Len(v) : v[i][1]})

\* C13: an authorised registerland reports the error of the earliest violated
\* condition in the order north > south, east > west, latitude bounds,
\* longitude bounds, size limit, overlap, deposit row, balance; it reaches the
\* debit and the insert only when no condition is violated.
C13_ErrorOrder ==
    (last.op = "registerland" /\ last.args.owner \in last.auth) =>
        LET first == FirstViolation(last.args.owner, last.args.box, pre) IN
        IF first = "ok"
        THEN last.err \in {"ok", "inline transfer failed"}
        ELSE last.err = first

\* C13 witness: an overlapping box submitted by an owner with no deposit
\* failed with the overlap error.
C13_Witness ==
    /\ last.op = "registerland" /\ last.args.owner \in last.auth
    /\ last.err = "Intersecting land has already been registered"
    /\ last.args.owner \notin DOMAIN pre.deposits

\* A box violating four validation conditions at once was refused.
C13_ManyViolations ==
    /\ last.op = "registerland" /\ last.args.owner \in last.auth
    /\ geometry_error(last.args.box) # "ok"
    /\ ViolationCount(last.args.owner, last.args.box, pre) >= 4

\* The open interiors of a stored row and of a candidate box intersect.
Crosses(p, b) ==
    /\ p.long_west_edge < b.east /\ b.west < p.long_east_edge
    /\ p.lat_south_edge < b.north /\ b.south < p.lat_north_edge

\* The rows the bounded scan looks at: those whose north edge is at or above
\* the candidate's south edge and less than the maximum land length above its
\* north edge.
InWindow(p, b) ==
    /\ p.lat_north_edge >= b.south
    /\ p.lat_north_edge < b.north + meters_to_lat_dist(max_land_length)

\* C14: for every reachable land table and every candidate box that passes
\* validation, registerland fails with the overlap error if and only if some
\* stored land's open box intersects the candidate's (a shared edge is not an
\* intersection), and every intersecting land lies inside the scanned window.
C14_ScanEquivalence ==
    (/\ last.op = "registerland"
     /\ last.args.owner \in last.auth
     /\ geometry_error(last.args.box) = "ok") =>
        LET b == last.args.box IN
        /\ (last.err = "Intersecting land has already been registered")
              <=> (\E p \in pre.lands : Crosses(p, b))
        /\ \A p \in pre.lands : Crosses(p, b) => InWindow(p, b)

\* C14 witness: a candidate was refused for a land at the far end of the
\* window (its north edge one unit below the scan's upper bound), a land that
\* does not intersect the candidate having been scanned before it.
C14_Witness ==
    /\ last.op = "registerland"
    /\ last.err = "Intersecting land has already been registered"
    /\ \E p \in pre.lands :
          /\ Crosses(p, last.args.box)
          /\ p.lat_north_edge + 1 = upper_bound(last.args.box.north)
    /\ \E q \in pre.lands :
          /\ InWindow(q, last.args.box)
          /\ ~Crosses(q, last.args.box)
          /\ q.lat_north_edge + 1 < upper_bound(last.args.box.north)

\* A candidate was accepted that shares its north edge with a land of the
\* maximum height, whose north edge is the scan's upper bound itself.
C14_EdgeAccepted ==
    /\ last.op = "registerland" /\ last.err = "ok"
    /\ \E p \in pre.lands :
          /\ p.lat_south_edge = last.args.box.north
          /\ p.long_west_edge < last.args.box.east
          /\ last.args.box.west < p.long_east_edge
          /\ p.lat_north_edge = upper_bound(last.args.box.north)

C16_ParcelsImmutable ==
    /\ pre.lands \subseteq lands
    /\ lands # pre.lands => last.op = "registerland" /\ last.err = "ok"
    /\ \A r \in lands \ pre.lands : \A p \in pre.lands : r.id > p.id
    /\ \A p \in lands : \A q \in lands : p.id = q.id => p = q

\* C16 witness: a registerland succeeded in a table that held a land with a
\* placement on it.
C16_Witness ==
    /\ last.op = "registerland" /\ last.err = "ok"
    /\ \E p \in pre.lands : \E x \in persistents : x.land_id = p.id

\* A placement was deleted from a land while its owner's deposit was open.
C16_PlacementDeleted ==
    /\ last.op = "deletepersis" /\ last.err = "ok"
    /\ lands # {}
    /\ DOMAIN deposits # {}

\* C17: every placement whose composite key carries the POLY source names an
\* asset id under which a poly row is stored, and every poly row is named by
\* the composite key of at least one placement.
C17_AssetConsistency ==
    /\ \A x \in persistents :
          unpack_source(x.source_and_asset_id) = POLY =>
             \E a \in poly : a.id = x.source_and_asset_id[2]
    /\ \A a \in poly :
          \E x \in persistents : x.source_and_asset_id = <<POLY, a.id>>

\* C17 witness: a persistpoly created a poly row under an id that a poly row
\* deleted earlier had carried, while another poly row was still placed.
C17_Witness ==
    /\ last.op = "persistpoly" /\ last.err = "ok"
    /\ poly # pre.poly
    /\ pre.poly # {}
    /\ last.ret.before.id = last.ret.asset_id

\* The last placement of an asset was deleted, and its poly row with it, while
\* another asset stayed placed.
C17_Collected ==
    /\ last.op = "deletepersis" /\ last.err = "ok"
    /\ poly # pre.poly
    /\ poly # {}

\* C18: the poly table holds at most one row per (user, poly_id) pair, every
\* row's poly_id has exactly 11 characters, and no two rows share an id.
C18_AssetTable ==
    /\ \A a \in poly : \A c \in poly :
          (a.user = c.user /\ a.poly_id = c.poly_id) => a = c
    /\ \A a \in poly : Len(a.poly_id) = 11
    /\ \A a \in poly : \A c \in poly : a.id = c.id => a = c

\* C18 witness: a persistpoly placed an asset its user had placed before and
\* still has placed; it resolved to the stored row and created none.
C18_Witness ==
    /\ last.op = "persistpoly" /\ last.err = "ok"
    /\ poly = pre.poly
    /\ \E a \in poly :
          /\ a.id = last.ret.asset_id
          /\ \E x \in pre.persistents :
                x.source_and_asset_id = <<POLY, a.id>>

\* Two users each hold a row for the same poly id.
C18_TwoOwners ==
    \E a \in poly : \E c \in poly : a.user # c.user /\ a.poly_id = c.poly_id

\* C19: a successful updatepersis leaves the targeted placement with its id
\* and composite key and with the land id, position, orientation and scale
\* given; every other placement, the poly table, the lands and the deposits
\* are as they were.
C19_UpdateFrame ==
    (last.op = "updatepersis" /\ last.err = "ok") =>
        /\ TargetRow \in pre.persistents
        /\ persistents =
              (pre.persistents \ {TargetRow}) \cup
              { [id |-> TargetRow.id,
                 land_id |-> last.args.land_id,
                 source_and_asset_id |-> TargetRow.source_and_asset_id,
                 position |-> last.args.v.position,
                 orientation |-> last.args.v.orientation,
                 scale |-> last.args.v.scale] }
        /\ Cardinality(persistents) = Cardinality(pre.persistents)
        /\ poly = pre.poly
        /\ lands = pre.lands
        /\ deposits = pre.deposits

\* C19 witness: a placement was moved to a land whose owner is not the user of
\* the poly row its key names, while another placement was stored.
C19_Witness ==
    /\ last.op = "updatepersis" /\ last.err = "ok"
    /\ IdsKnown
    /\ TargetRow.land_id # last.args.land_id
    /\ \E a \in poly :
          /\ a.id = TargetRow.source_and_asset_id[2]
          /\ a.user # row_of(lands, last.args.land_id).owner
    /\ Cardinality(persistents) = 2

\* The sum of the balances of a deposit table.
RECURSIVE TotalDeposits(_)
TotalDeposits(table) ==
    IF DOMAIN table = {} THEN 0
    ELSE LET o == CHOOSE x \in DOMAIN table : TRUE IN
         table[o] + TotalDeposits([x \in DOMAIN table \ {o} |-> table[x]])

\* C20: the contract account's holdings at the token contract equal the sum
\* of the deposit balances; every action changes both by the same amount
\* (plus the amount of an accepted inbound transfer, minus the fee of a
\* registration, minus the refund of a close), and no fee or refund transfer
\* exceeds the holdings it is paid from.
C20_Solvency ==
    /\ holdings = TotalDeposits(deposits)
    /\ holdings - pre.holdings
          = TotalDeposits(deposits) - TotalDeposits(pre.deposits)
    /\ (last.op = "depositinf" /\ last.err = "ok"
        /\ ~depositinf_ignored(last.args.from, last.args.to)) =>
          holdings = pre.holdings + last.args.quantity.amount
    /\ (last.op = "registerland" /\ last.err = "ok") =>
          holdings = pre.holdings - box_fee(last.args.box)
    /\ (last.op = "closedeposit" /\ last.err = "ok") =>
          holdings = pre.holdings - pre.deposits[last.args.owner]
    /\ \A i \in 1..Len(last.transfers) :
          last.transfers[i].amount <= pre.holdings

\* C20 witness: a deposit was closed and refunded while the other owner's
\* deposit held a balance, after a fee had been paid out of the holdings.
C20_Witness ==
    /\ last.op = "closedeposit" /\ last.err = "ok"
    /\ last.transfers # <<>>
    /\ holdings > 0
    /\ lands # {}

\* A fee transfer took exactly everything the contract held.
C20_LastUnit ==
    /\ last.op = "registerland" /\ last.err = "ok"
    /\ holdings = 0
    /\ pre.holdings > 0

====
